---- MODULE Spec2Model ----
(***************************************************************************)
(* Model of the Bitcoin metrics dashboard (src/app.py): the derived-metric *)
(* functions (issuance per block, 7-period moving average of on-chain      *)
(* volume, institutional holdings a week ago) and the module-level render  *)
(* pass that turns the fetched values into metric tiles.                   *)
(*                                                                         *)
(* Python values are carried as records [k, n, d]: k is the kind of the    *)
(* value ("num", "text", "N/A", "None", "NaN") and n/d its numeric value,  *)
(* an exact rational standing for the float the program computes.          *)
(***************************************************************************)
EXTENDS Integers, Sequences, FiniteSets, TLC

VARIABLES
    pc,                          \* position of the running script / function
    \* calculate_issuance_per_block: argument, result, and the previous call
    current_block_height, issuance, prev_block_height, prev_issuance,
    \* get_onchain_volume_mas: response status and data['values'] (the 'y' column)
    volume_response, values,
    \* get_institutional_btcs: response status, CSV rows, the sorted frame
    csv_response, csv_rows, df,
    \* module-level values fetched at lines 140-146
    btc_data, block_height, block_height_7d_ago, avg_block_time, difficulty_data,
    latest_ma, prev_ma, institutional_btc, week_ago_institutional_btc,
    \* render pass: tiles shown, locals of the supply block, sentinel misuse
    tiles, blocks_mined, daily_avg_supply_increase, supply_increase_delta, leak

vars == <<pc, current_block_height, issuance, prev_block_height, prev_issuance,
          volume_response, values, csv_response, csv_rows, df,
          btc_data, block_height, block_height_7d_ago, avg_block_time,
          difficulty_data, latest_ma, prev_ma, institutional_btc,
          week_ago_institutional_btc, tiles, blocks_mined,
          daily_avg_supply_increase, supply_increase_delta, leak>>

issuanceVars == <<current_block_height, issuance, prev_block_height, prev_issuance>>
volumeVars   == <<volume_response, values>>
holdingsVars == <<csv_response, csv_rows, df>>
fetchedVars  == <<btc_data, block_height, block_height_7d_ago, avg_block_time,
                  difficulty_data>>
renderVars   == <<tiles, blocks_mined, daily_avg_supply_increase,
                  supply_increase_delta, leak>>

----------------------------------------------------------------------------
(* Python values *)

Val(k, n, d) == [k |-> k, n |-> n, d |-> d]
Num(n)     == Val("num", n, 1)          \* an int or float
Rat(n, d)  == Val("num", n, d)          \* the float n/d, d > 0
Text(n)    == Val("text", n, 1)         \* the decimal text of n (response.text)
NA         == Val("N/A", 0, 1)          \* the "N/A" string sentinel
None       == Val("None", 0, 1)
NaN        == Val("NaN", 0, 1)

IsNum(x) == x.k = "num"
\* x != "N/A": only the sentinel string itself compares equal to "N/A"
NotNA(x) == x.k # "N/A"

REq(a, b)  == a.n * b.d = b.n * a.d
RLt(a, b)  == a.n * b.d < b.n * a.d
RSub(a, b) == Rat(a.n * b.d - b.n * a.d, a.d * b.d)
RMul(a, b) == Rat(a.n * b.n, a.d * b.d)
RDiv(a, b) == IF b.n > 0 THEN Rat(a.n * b.d, a.d * b.n)
                         ELSE Rat(-(a.n * b.d), a.d * (-b.n))
RAbs(a)    == IF a.n < 0 THEN Rat(-a.n, a.d) ELSE a

\* round n/d (d > 0) to the nearest integer, halves to even: what ":.0f" prints
RoundHalfEven(n, d) ==
    LET q == n \div d
        r == n - q * d
    IN  IF 2 * r < d THEN q
        ELSE IF 2 * r > d THEN q + 1
        ELSE IF q % 2 = 0 THEN q ELSE q + 1

\* f"{x:.<p>f}": x rounded to p decimals
Fmt(x, p) == Rat(RoundHalfEven(x.n * (10 ^ p), x.d), 10 ^ p)

\* int(x) on a number truncates toward zero; on text it parses the digits
Trunc(x) == IF x.n >= 0 THEN x.n \div x.d ELSE -((-x.n) \div x.d)
PyInt(x) == IF x.k = "text" THEN Num(x.n) ELSE Num(Trunc(x))
\* the exception int(x) raises, "none" when it succeeds
PyIntError(x) ==
    CASE x.k = "num"  -> "none"
      [] x.k = "text" -> "none"
      [] x.k = "None" -> "TypeError"
      [] OTHER        -> "ValueError"

----------------------------------------------------------------------------
(* calculate_issuance_per_block, lines 75-84 *)

HalvingInterval == 210000
EpochOffset == 4
MaxEpoch == 7                    \* heights are drawn from epochs 0..MaxEpoch

\* math.floor(h / 210000 - 4): exact for every height a float holds exactly
\* (halving_cycles_ceil rounds the quotient up instead: a faulty variant)
halving_cycles_ceil(h) == ((h + HalvingInterval - 1) \div HalvingInterval) - EpochOffset

halving_cycles(h) == (h \div HalvingInterval) - EpochOffset

\* 3.125 * 2 ** (-halving_cycles), as the rational 25/8 * 2^(-c)
issuance_of_cycles(c) ==
    IF c <= 0 THEN Rat(25 * (2 ^ (-c)), 8)
              ELSE Rat(25, 8 * (2 ^ c))

calculate_issuance_per_block(h) ==
    IF h.k = "N/A" THEN Num(0)
    ELSE issuance_of_cycles(halving_cycles(h.n))

\* heights at the start, just after the start, inside and at the end of an epoch
EpochOffsets == {0, 1, 105000, HalvingInterval - 1}
Heights == {e * HalvingInterval + o : e \in 0..MaxEpoch, o \in EpochOffsets}

IdleIssuance == /\ current_block_height = NA
                /\ issuance = Num(0)
                /\ prev_block_height = NA
                /\ prev_issuance = Num(0)
IdleVolume   == /\ volume_response = "ok"
                /\ values = <<>>
IdleHoldings == /\ csv_response = "ok"
                /\ csv_rows = <<>>
                /\ df = <<>>

Unset == Val("unset", 0, 1)      \* a name the script has not assigned yet

Missing == Val("missing", 0, 1)  \* a key the JSON object does not have

\* the tiles of the page; a tile is not shown, shows "N/A", or shows a value
\* with an optional delta line, arrow and progress bar
TileNames == {"price", "market_cap", "block_height", "avg_block_time",
              "difficulty", "supply", "holdings", "volume"}
Tile(shown, value, delta, arrow, progress) ==
    [shown |-> shown, value |-> value, delta |-> delta, arrow |-> arrow,
     progress |-> progress]
NoTile    == Tile("none", None, None, "", None)
NATile    == Tile("N/A", NA, None, "", None)          \* colN.metric(label, "N/A")

NoBtcData == [k |-> "None", current_price |-> Missing,
              price_change_percentage_24h |-> Missing,
              market_cap |-> Missing, circulating_supply |-> Missing]
NoDifficultyData == [k |-> "None", recs |-> <<>>]

IdleFetched  == /\ btc_data = NoBtcData
                /\ block_height = NA
                /\ block_height_7d_ago = NA
                /\ avg_block_time = NA
                /\ difficulty_data = NoDifficultyData
IdleRender   == /\ tiles = [t \in TileNames |-> NoTile]
                /\ blocks_mined = Unset
                /\ daily_avg_supply_increase = Unset
                /\ supply_increase_delta = Unset
                /\ leak = "none"
IdleMAs      == /\ latest_ma = Unset
                /\ prev_ma = Unset
IdleBtcs     == /\ institutional_btc = Unset
                /\ week_ago_institutional_btc = Unset

HeightArgs == {Num(h) : h \in Heights} \cup {NA}

InitIssuance ==
    /\ pc = "issuance"
    /\ IdleIssuance /\ IdleVolume /\ IdleHoldings
    /\ IdleFetched /\ IdleRender /\ IdleMAs /\ IdleBtcs

\* one call of calculate_issuance_per_block; the previous call is remembered
CallIssuance ==
    /\ pc = "issuance"
    /\ \E h \in HeightArgs :
          /\ current_block_height' = h
          /\ issuance' = calculate_issuance_per_block(h)
    /\ prev_block_height' = current_block_height
    /\ prev_issuance' = issuance
    /\ UNCHANGED <<pc, volumeVars, holdingsVars, fetchedVars, renderVars,
                   latest_ma, prev_ma, institutional_btc,
                   week_ago_institutional_btc>>

NextIssuance == CallIssuance
SpecIssuance == InitIssuance /\ [][NextIssuance]_vars

----------------------------------------------------------------------------
(* get_onchain_volume_mas, lines 86-100 *)

\* (WindowShort: a window one observation too short, a faulty variant)
WindowShort == 7 - 1

Window == 7
MaxVolLen == 9                   \* longest data['values'] considered

RECURSIVE SumRange(_, _, _)
SumRange(s, lo, hi) == IF lo > hi THEN 0 ELSE s[hi].n + SumRange(s, lo, hi - 1)

HasNaN(s, lo, hi) == \E j \in lo..hi : s[j].k = "NaN"

\* (rolling_mean_min1: rolling(window=7, min_periods=1), a faulty variant that
\* averages whatever the window holds)
rolling_mean_min1(s) ==
    [i \in 1..Len(s) |->
        LET lo == IF i < Window THEN 1 ELSE i - Window + 1
        IN  IF HasNaN(s, lo, i) THEN NaN
            ELSE Rat(SumRange(s, lo, i), i - lo + 1)]

\* df['y'].rolling(window=7).mean(): NaN until 7 observations are in the
\* window, NaN while the window holds a NaN, else the mean of the window
rolling_mean(s) ==
    [i \in 1..Len(s) |->
        IF i < Window \/ HasNaN(s, i - Window + 1, i)
        THEN NaN
        ELSE Rat(SumRange(s, i - Window + 1, i), Window)]

dropna(s) == SelectSeq(s, LAMBDA x : x.k # "NaN")

\* the pair the function returns
get_onchain_volume_mas(response, vals) ==
    IF response # "ok" THEN <<NA, NA>>              \* RequestException, KeyError
    ELSE IF Len(vals) = 0 THEN <<NA, NA>>           \* df['y'] raises KeyError
    ELSE LET mas == dropna(rolling_mean(vals))
         IN  IF Len(mas) >= 2
             THEN <<mas[Len(mas)], mas[Len(mas) - 1]>>
             ELSE <<NA, NA>>

VolumeObservations == {Num(2), Num(5), NaN}
VolumeSeries == UNION {[1..n -> VolumeObservations] : n \in 0..MaxVolLen}

InitVolume ==
    /\ pc = "volume_fetch"
    /\ volume_response \in {"ok", "http_error", "no_values_key"}
    /\ values \in VolumeSeries
    /\ volume_response # "ok" => values = <<>>
    /\ IdleIssuance /\ IdleHoldings
    /\ IdleFetched /\ IdleRender /\ IdleMAs /\ IdleBtcs

CallVolumeMAs ==
    /\ pc = "volume_fetch"
    /\ pc' = "volume_done"
    /\ LET r == get_onchain_volume_mas(volume_response, values)
       IN  /\ latest_ma' = r[1]
           /\ prev_ma' = r[2]
    /\ UNCHANGED <<issuanceVars, volumeVars, holdingsVars, fetchedVars, renderVars,
                   institutional_btc, week_ago_institutional_btc>>

NextVolume == CallVolumeMAs
SpecVolume == InitVolume /\ [][NextVolume]_vars

----------------------------------------------------------------------------
(* get_institutional_btcs, lines 102-133 *)

WeekDays == 7                    \* timedelta(days=7); timestamps count days
MaxHoldLen == 3                  \* longest CSV considered

\* the six category columns of a row, in the order of columns_to_sum
ColumnChoices == { <<100, 0, 0, 0, 0, 0>>,
                   <<50, 20, 30, 10, 15, 25>>,
                   <<60, 40, 30, 20, 10, 40>> }
HoldingDays == {0, 3, 6, 7, 8, 11, 14}
CsvRow == [timestamp : HoldingDays, cols : ColumnChoices]

\* df.loc[i, columns_to_sum].sum()
RECURSIVE SumCols(_, _)
SumCols(c, i) == IF i = 0 THEN 0 ELSE c[i] + SumCols(c, i - 1)
row_total(row) == Num(SumCols(row.cols, Len(row.cols)))

\* sort_values(by='timestamp', ascending=False).reset_index(drop=True): every
\* newest-first arrangement of the rows (the default sort is not stable, so
\* rows of equal timestamp may come out in either order)
sort_values_desc(rows) ==
    LET n == Len(rows)
        perms == {p \in [1..n -> 1..n] :
                    /\ \A i, j \in 1..n : i # j => p[i] # p[j]
                    /\ \A i \in 1..n - 1 :
                          rows[p[i]].timestamp >= rows[p[i + 1]].timestamp}
    IN  {[i \in 1..n |-> rows[p[i]]] : p \in perms}

AbsInt(x) == IF x < 0 THEN -x ELSE x

\* df['time_diff'] = abs(df['timestamp'] - target_date)
time_diff(frame, target_date) ==
    [i \in 1..Len(frame) |-> AbsInt(frame[i].timestamp - target_date)]

\* (idxmin_last: the last index of the minimum, a faulty variant)
idxmin_last(col) ==
    CHOOSE i \in 1..Len(col) :
        /\ \A j \in 1..Len(col) : col[i] <= col[j]
        /\ \A j \in i + 1..Len(col) : col[j] > col[i]

\* Series.idxmin(): the first index of the minimum
idxmin(col) ==
    CHOOSE i \in 1..Len(col) :
        /\ \A j \in 1..Len(col) : col[i] <= col[j]
        /\ \A j \in 1..i - 1 : col[j] > col[i]

\* the pair the function returns for a sorted frame
institutional_totals(frame) ==
    IF Len(frame) > 0
    THEN LET latest_timestamp == frame[1].timestamp
             target_date == latest_timestamp - WeekDays
             closest_idx == idxmin(time_diff(frame, target_date))
         IN  <<row_total(frame[1]), row_total(frame[closest_idx])>>
    ELSE <<NA, NA>>

Chronological(rows) ==
    \A i \in 1..Len(rows) - 1 : rows[i].timestamp <= rows[i + 1].timestamp
HoldingsSeries ==
    UNION {{s \in [1..n -> CsvRow] : Chronological(s)} : n \in 0..MaxHoldLen}

InitHoldings ==
    /\ pc = "holdings_fetch"
    /\ csv_response \in {"ok", "error"}
    /\ csv_rows \in HoldingsSeries
    /\ csv_response # "ok" => csv_rows = <<>>
    /\ df = <<>>
    /\ IdleIssuance /\ IdleVolume
    /\ IdleFetched /\ IdleRender /\ IdleMAs /\ IdleBtcs

\* the whole function: read, sort, total; any exception gives ("N/A", "N/A")
CallInstitutionalBtcs ==
    /\ pc = "holdings_fetch"
    /\ pc' = "holdings_done"
    /\ IF csv_response = "ok"
       THEN \E frame \in sort_values_desc(csv_rows) :
              /\ df' = frame
              /\ institutional_btc' = institutional_totals(frame)[1]
              /\ week_ago_institutional_btc' = institutional_totals(frame)[2]
       ELSE /\ df' = df
            /\ institutional_btc' = NA
            /\ week_ago_institutional_btc' = NA
    /\ UNCHANGED <<issuanceVars, volumeVars, csv_response, csv_rows, fetchedVars,
                   renderVars, latest_ma, prev_ma>>

NextHoldings == CallInstitutionalBtcs
SpecHoldings == InitHoldings /\ [][NextHoldings]_vars

----------------------------------------------------------------------------
(* The render pass, lines 139-340 *)

total_supply == 21000000

\* dict.get(key, default)
Get(field, default) == IF field.k = "missing" THEN default ELSE field

\* what a tile block yields: the tile it draws, or the operation at which the
\* sentinel or None was used as a number (the script stops there)
Drawn(tile)  == [tile |-> tile, leak |-> "none"]
Raised(what) == [tile |-> NoTile, leak |-> what]

\* lines 152-162
price_tile(data) ==
    LET price == Get(data.current_price, NA)
        price_change == Get(data.price_change_percentage_24h, Num(0))
    IN  IF ~IsNum(price) THEN Raised("format price")
        ELSE IF price_change.k # "None"
        THEN Drawn(Tile("value", Fmt(price, 0), Fmt(RAbs(price_change), 2),
                        IF price_change.n >= 0 THEN "up" ELSE "down", None))
        ELSE Drawn(Tile("value", Fmt(price, 0), None, "", None))

\* lines 164-178; market_cap is carried in millions of USD, so the thresholds
\* 10^12 and 10^9 read 10^6 and 10^3
market_cap_tile(data) ==
    LET market_cap == Get(data.market_cap, NA)
    IN  IF ~NotNA(market_cap) THEN Drawn(NATile)
        ELSE IF ~IsNum(market_cap) THEN Raised("compare market_cap")
        ELSE IF RLt(Num(1000000), market_cap)
        THEN Drawn(Tile("value", Fmt(RDiv(market_cap, Num(1000000)), 2), None, "", None))
        ELSE IF RLt(Num(1000), market_cap)
        THEN Drawn(Tile("value", Fmt(RDiv(market_cap, Num(1000)), 2), None, "", None))
        ELSE Drawn(Tile("value", Fmt(market_cap, 2), None, "", None))

\* lines 186-191
block_height_tile(height) ==
    IF NotNA(height)
    THEN IF PyIntError(height) # "none" THEN Raised("int block_height")
         ELSE Drawn(Tile("value", PyInt(height), None, "", None))
    ELSE Drawn(NATile)

\* lines 193-204
avg_block_time_tile(block_time) ==
    IF NotNA(block_time)
    THEN IF ~IsNum(block_time) THEN Raised("format avg_block_time")
         ELSE LET delta_time == RSub(block_time, Num(600))
              IN  Drawn(Tile("value", Fmt(block_time, 2), Fmt(RAbs(delta_time), 2),
                             IF delta_time.n <= 0 THEN "down" ELSE "up", None))
    ELSE Drawn(NATile)

\* (difficulty_tile_last: reads the last record of the list, a faulty variant)
difficulty_tile_last(data) ==
    IF data.k = "list" /\ Len(data.recs) > 0
    THEN LET latest_adjustment == data.recs[Len(data.recs)]
         IN  IF latest_adjustment.islist /\ Len(latest_adjustment.fields) >= 4
             THEN LET difficulty == latest_adjustment.fields[3]
                      change_factor == latest_adjustment.fields[4]
                      difficulty_in_terra == RDiv(difficulty, Num(1000))
                      difficulty_change_percent ==
                          RMul(RSub(change_factor, Num(1)), Num(100))
                  IN  Tile("value", Fmt(difficulty_in_terra, 2),
                           Fmt(RAbs(difficulty_change_percent), 2),
                           IF difficulty_change_percent.n >= 0 THEN "up" ELSE "down",
                           None)
             ELSE NATile
    ELSE NATile

\* lines 206-226; a difficulty is carried in units of 10^9, so the divisor
\* 10^12 reads 10^3. Fields 2 and 3 of the Python list are fields[3] and
\* fields[4] of the 1-based sequence
difficulty_tile(data) ==
    IF data.k = "list" /\ Len(data.recs) > 0
    THEN LET latest_adjustment == data.recs[1]
         IN  IF latest_adjustment.islist /\ Len(latest_adjustment.fields) >= 4
             THEN LET difficulty == latest_adjustment.fields[3]
                      change_factor == latest_adjustment.fields[4]
                      difficulty_in_terra == RDiv(difficulty, Num(1000))
                      difficulty_change_percent ==
                          RMul(RSub(change_factor, Num(1)), Num(100))
                  IN  Tile("value", Fmt(difficulty_in_terra, 2),
                           Fmt(RAbs(difficulty_change_percent), 2),
                           IF difficulty_change_percent.n >= 0 THEN "up" ELSE "down",
                           None)
             ELSE NATile
    ELSE NATile

\* (supply_increase_per_day_prior_rate: takes the issuance of the height 7
\* days ago, a faulty variant)
supply_increase_per_day_prior_rate(current_height, height_7d_ago) ==
    RDiv(RMul(Num(current_height - height_7d_ago),
              calculate_issuance_per_block(Num(height_7d_ago))),
         Num(7))

\* lines 245-254: blocks_mined * issuance_per_block / 7
supply_increase_per_day(current_height, height_7d_ago) ==
    RDiv(RMul(Num(current_height - height_7d_ago),
              calculate_issuance_per_block(Num(current_height))),
         Num(7))

\* lines 238-258: the locals of the growth computation; delta is the string
\* f"{daily_avg_supply_increase:.0f} BTC/day" (its number), or None
supply_growth(height, height_7d) ==
    IF NotNA(height) /\ NotNA(height_7d)
    THEN IF PyIntError(height) # "none" \/ PyIntError(height_7d) # "none"
         THEN [blocks |-> Unset, daily |-> Unset, delta |-> None,
               caught |-> "int block height"]
         ELSE LET current_height == PyInt(height).n
                  height_7d_ago == PyInt(height_7d).n
                  daily == supply_increase_per_day(current_height, height_7d_ago)
              IN  [blocks |-> Num(current_height - height_7d_ago),
                   daily |-> daily,
                   delta |-> Text(RoundHalfEven(daily.n, daily.d)),
                   caught |-> "none"]
    ELSE [blocks |-> Unset, daily |-> Unset, delta |-> None, caught |-> "none"]

\* lines 234-276, given the growth locals; a non-empty string is truthy
supply_tile(data, growth) ==
    LET circulating_supply == Get(data.circulating_supply, NA)
    IN  IF NotNA(circulating_supply)
        THEN IF PyIntError(circulating_supply) # "none"
             THEN Raised("int circulating_supply")
             ELSE Drawn(Tile("value", PyInt(circulating_supply),
                             IF growth.delta.k = "text" THEN growth.delta ELSE None,
                             IF growth.delta.k = "text" THEN "up" ELSE "",
                             RDiv(circulating_supply, Num(total_supply))))
        ELSE Drawn(NATile)

\* lines 278-315
holdings_tile(latest_total, week_ago_total) ==
    IF NotNA(latest_total)
    THEN IF ~IsNum(latest_total) THEN Raised("int institutional_btc")
         ELSE IF NotNA(week_ago_total) /\ ~IsNum(week_ago_total)
         THEN Raised("compare week_ago_institutional_btc")
         ELSE LET daily_avg_delta ==
                      IF NotNA(week_ago_total) /\ week_ago_total.n > 0
                      THEN RDiv(RSub(latest_total, week_ago_total), Num(7))
                      ELSE Num(0)
              IN  Drawn(Tile("value", PyInt(latest_total),
                             IF daily_avg_delta.n = 0 THEN None
                                 ELSE Fmt(RAbs(daily_avg_delta), 0),
                             IF daily_avg_delta.n = 0 THEN ""
                                 ELSE IF daily_avg_delta.n > 0 THEN "up" ELSE "down",
                             RDiv(latest_total, Num(total_supply))))
    ELSE Drawn(NATile)

\* lines 317-337
volume_tile(latest, prev) ==
    IF NotNA(latest)
    THEN IF ~IsNum(latest) THEN Raised("int latest_ma")
         ELSE IF NotNA(prev) /\ ~IsNum(prev) THEN Raised("compare prev_ma")
         ELSE IF NotNA(prev) /\ prev.n > 0
         THEN LET delta == RSub(latest, prev)
                  delta_percent == RMul(RDiv(delta, prev), Num(100))
              IN  Drawn(Tile("value", PyInt(latest), Fmt(RAbs(delta_percent), 2),
                             IF delta.n > 0 THEN "up" ELSE "down", None))
         ELSE Drawn(Tile("value", PyInt(latest), None, "", None))
    ELSE Drawn(NATile)

\* values the fetchers of lines 140-146 can hand to the render pass
BtcFieldsPrice  == {Missing, None, Num(97250)}
BtcFieldsChange == {Missing, None, Rat(-215, 100)}
BtcFieldsCap    == {Missing, None, Num(1930000)}
BtcFieldsSupply == {Missing, None, Num(19850000)}
BtcData ==
    {NoBtcData} \cup
    [k : {"dict"}, current_price : BtcFieldsPrice,
     price_change_percentage_24h : BtcFieldsChange,
     market_cap : BtcFieldsCap, circulating_supply : BtcFieldsSupply]

BlockHeights     == {NA, Text(1049999), Text(1050000)}
BlockHeights7d   == {NA, None, Num(1048991), Num(1050000), Num(1050007)}
AvgBlockTimes    == {NA, Rat(5871, 10), Num(612)}

\* one difficulty adjustment as mempool.space sends it:
\* [timestamp, height, difficulty, change_factor, ...]
Adjustment(fields) == [islist |-> TRUE, fields |-> fields]
AdjustmentUp   == Adjustment(<<Num(1730000000), Num(868896), Num(100000),
                               Rat(105, 100)>>)
AdjustmentDown == Adjustment(<<Num(1728800000), Num(866880), Num(95672),
                               Rat(97, 100), Num(0)>>)
AdjustmentEven == Adjustment(<<Num(1727600000), Num(864864), Num(92050), Num(1)>>)
AdjustmentShort == Adjustment(<<Num(1730000000), Num(868896), Num(100000)>>)
NotAnAdjustment == [islist |-> FALSE, fields |-> <<>>]
DifficultyData ==
    { NoDifficultyData,
      [k |-> "dict", recs |-> <<>>],
      [k |-> "list", recs |-> <<>>],
      [k |-> "list", recs |-> <<NotAnAdjustment, AdjustmentUp>>],
      [k |-> "list", recs |-> <<AdjustmentShort, AdjustmentUp>>],
      [k |-> "list", recs |-> <<AdjustmentUp, AdjustmentDown>>],
      [k |-> "list", recs |-> <<AdjustmentDown, AdjustmentUp>>],
      [k |-> "list", recs |-> <<AdjustmentEven>>] }

\* results of get_onchain_volume_mas and of get_institutional_btcs
MovingAveragePairs == { <<NA, NA>>, <<Rat(36, 7), Rat(33, 7)>>,
                        <<Rat(33, 7), Rat(36, 7)>> }
HoldingsPairs == { <<NA, NA>>, <<Num(200), Num(150)>>, <<Num(200), Num(200)>>,
                   <<Num(150), Num(200)>> }

InitRender ==
    /\ pc = "render"
    /\ btc_data \in BtcData
    /\ block_height \in BlockHeights
    /\ block_height_7d_ago \in BlockHeights7d
    /\ avg_block_time \in AvgBlockTimes
    /\ difficulty_data \in DifficultyData
    /\ \E p \in MovingAveragePairs : latest_ma = p[1] /\ prev_ma = p[2]
    /\ \E p \in HoldingsPairs :
          institutional_btc = p[1] /\ week_ago_institutional_btc = p[2]
    /\ IdleIssuance /\ IdleVolume /\ IdleHoldings /\ IdleRender

fetchedConst == <<issuanceVars, volumeVars, holdingsVars, fetchedVars,
                  latest_ma, prev_ma, institutional_btc,
                  week_ago_institutional_btc>>
supplyLocals == <<blocks_mined, daily_avg_supply_increase, supply_increase_delta>>

\* a tile block at position at: draw the tile and go on, or stop the script
\* with the uncaught exception
TileStep(at, name, r, next) ==
    /\ pc = at
    /\ IF r.leak = "none"
       THEN /\ tiles' = [tiles EXCEPT ![name] = r.tile]
            /\ pc' = next
            /\ leak' = leak
       ELSE /\ tiles' = tiles
            /\ pc' = "crashed"
            /\ leak' = r.leak
    /\ UNCHANGED fetchedConst

\* line 148 and lines 339-340
CheckBtcData ==
    /\ pc = "render"
    /\ pc' = IF btc_data.k = "dict" THEN "price" ELSE "error_shown"
    /\ UNCHANGED <<fetchedConst, renderVars>>

PriceTile ==
    /\ TileStep("price", "price", price_tile(btc_data), "market_cap")
    /\ UNCHANGED supplyLocals
MarketCapTile ==
    /\ TileStep("market_cap", "market_cap", market_cap_tile(btc_data), "block_height")
    /\ UNCHANGED supplyLocals
BlockHeightTile ==
    /\ TileStep("block_height", "block_height", block_height_tile(block_height),
                "avg_block_time")
    /\ UNCHANGED supplyLocals
AvgBlockTimeTile ==
    /\ TileStep("avg_block_time", "avg_block_time",
                avg_block_time_tile(avg_block_time), "difficulty")
    /\ UNCHANGED supplyLocals
DifficultyTile ==
    /\ TileStep("difficulty", "difficulty", Drawn(difficulty_tile(difficulty_data)),
                "supply")
    /\ UNCHANGED supplyLocals

\* lines 234-276: the growth locals are computed only past the guard of line
\* 237; an exception caught at line 257 still is a use of the bad value
SupplyTile ==
    /\ pc = "supply"
    /\ LET guarded == NotNA(Get(btc_data.circulating_supply, NA))
           growth  == IF guarded
                      THEN supply_growth(block_height, block_height_7d_ago)
                      ELSE [blocks |-> Unset, daily |-> Unset, delta |-> Unset,
                            caught |-> "none"]
           r       == supply_tile(btc_data, growth)
       IN  /\ blocks_mined' = growth.blocks
           /\ daily_avg_supply_increase' = growth.daily
           /\ supply_increase_delta' = growth.delta
           /\ IF r.leak = "none"
              THEN /\ tiles' = [tiles EXCEPT !["supply"] = r.tile]
                   /\ pc' = "holdings"
                   /\ leak' = IF growth.caught # "none" THEN growth.caught ELSE leak
              ELSE /\ tiles' = tiles
                   /\ pc' = "crashed"
                   /\ leak' = r.leak
    /\ UNCHANGED fetchedConst

HoldingsTile ==
    /\ TileStep("holdings", "holdings",
                holdings_tile(institutional_btc, week_ago_institutional_btc), "volume")
    /\ UNCHANGED supplyLocals
VolumeTile ==
    /\ TileStep("volume", "volume", volume_tile(latest_ma, prev_ma), "done")
    /\ UNCHANGED supplyLocals

NextRender ==
    \/ CheckBtcData
    \/ PriceTile
    \/ MarketCapTile
    \/ BlockHeightTile
    \/ AvgBlockTimeTile
    \/ DifficultyTile
    \/ SupplyTile
    \/ HoldingsTile
    \/ VolumeTile
SpecRender == InitRender /\ [][NextRender]_vars

----------------------------------------------------------------------------
(* Properties of calculate_issuance_per_block (SpecIssuance) *)

Epoch(h) == h.n \div 210000

\* C7: for every non-negative height h the issuance is 3.125 * 2^(-(floor(h /
\* 210000) - 4)), i.e. 50 / 2^epoch: constant inside an epoch, exactly half
\* the previous epoch's value from each multiple of 210000 on, 3.125 in
\* 840000..1049999 and 1.5625 from 1050000.
C7_IssuanceFollowsHalvingSchedule ==
    current_block_height.k = "num" =>
        /\ issuance.k = "num"
        /\ issuance.n * (2 ^ Epoch(current_block_height)) = 50 * issuance.d
        /\ (current_block_height.n \in 840000..1049999
                => REq(issuance, Rat(3125, 1000)))
        /\ (current_block_height.n \in 1050000..1259999
                => REq(issuance, Rat(15625, 10000)))
        /\ prev_block_height.k = "num" =>
              /\ (Epoch(prev_block_height) = Epoch(current_block_height)
                    => REq(issuance, prev_issuance))
              /\ (Epoch(current_block_height) = Epoch(prev_block_height) + 1
                    => REq(RMul(Num(2), issuance), prev_issuance))

\* the call at the last height of epoch 4 followed by the call at the halving
C7_Witness ==
    /\ prev_block_height = Num(1049999)
    /\ current_block_height = Num(1050000)
    /\ REq(prev_issuance, Rat(3125, 1000))
    /\ REq(issuance, Rat(15625, 10000))

----------------------------------------------------------------------------
(* Properties of get_onchain_volume_mas (SpecVolume) *)

VolumeReturned == pc = "volume_done" /\ volume_response = "ok"
NoMissing(s) == \A i \in 1..Len(s) : s[i].k = "num"
\* number of complete 7-observation windows without a missing value
ValidWindowCount(s) ==
    Cardinality({i \in 7..Len(s) : \A j \in i - 6..i : s[j].k = "num"})
MeanOf7EndingAt(s, i) == Rat(SumRange(s, i - 6, i), 7)

\* C4 as stated: a series of exactly 7 observations (one valid window) gives
\* latest = the mean of the 7 observations and previous = Unavailable.
C4_OneWindowGivesLatestOnly ==
    (VolumeReturned /\ Len(values) = 7 /\ NoMissing(values)) =>
        /\ latest_ma.k = "num"
        /\ REq(latest_ma, MeanOf7EndingAt(values, 7))
        /\ prev_ma = NA

\* C4 as amended: with fewer than two valid windows (one as well as none)
\* both results are Unavailable; with two or more both are numbers.
C4_FewerThanTwoWindowsGivesNothing ==
    VolumeReturned =>
        /\ (ValidWindowCount(values) <= 1 => (latest_ma = NA /\ prev_ma = NA))
        /\ (ValidWindowCount(values) >= 2
                => (latest_ma.k = "num" /\ prev_ma.k = "num"))

\* exactly 7 observations, none missing, and nothing is returned
C4_Witness ==
    /\ VolumeReturned
    /\ Len(values) = 7 /\ NoMissing(values)
    /\ ValidWindowCount(values) = 1
    /\ latest_ma = NA /\ prev_ma = NA

\* C5: a series shorter than 8 (empty and length 7 included) gives
\* (Unavailable, Unavailable); a series of 8 or more without missing values
\* gives the mean of the last 7 observations as latest and the mean of the
\* window ending one observation earlier as previous.
C5_MovingAveragePair ==
    pc = "volume_done" =>
        /\ (Len(values) < 8 => (latest_ma = NA /\ prev_ma = NA))
        /\ (Len(values) >= 8 /\ NoMissing(values)) =>
              /\ latest_ma.k = "num" /\ prev_ma.k = "num"
              /\ REq(latest_ma, MeanOf7EndingAt(values, Len(values)))
              /\ REq(prev_ma, MeanOf7EndingAt(values, Len(values) - 1))

\* a full series of 9 observations whose two last windows differ
C5_Witness ==
    /\ VolumeReturned
    /\ Len(values) = 9 /\ NoMissing(values)
    /\ latest_ma.k = "num" /\ prev_ma.k = "num"
    /\ ~REq(latest_ma, prev_ma)

----------------------------------------------------------------------------
(* Properties of get_institutional_btcs (SpecHoldings) *)

HoldingsReturned == pc = "holdings_done" /\ csv_response = "ok"
LatestTs == csv_rows[Len(csv_rows)].timestamp
\* distance of entry i from seven days before the latest entry
Dist(i) == AbsInt(csv_rows[i].timestamp - (LatestTs - 7))
Closest(i) == \A j \in 1..Len(csv_rows) : Dist(i) <= Dist(j)

\* C3 as stated: a series of fewer than 2 entries gives previous_total =
\* Unavailable; a single entry gives (latest_total, Unavailable).
C3_ShortSeriesHasNoPrevious ==
    (HoldingsReturned /\ Len(csv_rows) < 2) => week_ago_institutional_btc = NA

\* C6 as stated: with 2 or more entries previous_total is the total of the
\* closest entry to latest_ts - 7 days, and of the chronologically first
\* (earliest index) among several closest entries.
C6_TieGoesToEarliestEntry ==
    (HoldingsReturned /\ Len(csv_rows) >= 2) =>
        \E i \in 1..Len(csv_rows) :
            /\ Closest(i)
            /\ \A j \in 1..i - 1 : ~Closest(j)
            /\ week_ago_institutional_btc = row_total(csv_rows[i])

\* C6 as amended: previous_total is the total of a closest entry, and among
\* several closest entries of the newest one (the first in the newest-first
\* order the code scans); an entry exactly 7 days back is therefore chosen.
C6_TieGoesToNewestEntry ==
    (HoldingsReturned /\ Len(csv_rows) >= 2) =>
        /\ institutional_btc.k = "num"
        /\ \E i \in 1..Len(csv_rows) :
              /\ Closest(i)
              /\ \A j \in 1..Len(csv_rows) :
                    Closest(j) => csv_rows[j].timestamp <= csv_rows[i].timestamp
              /\ week_ago_institutional_btc = row_total(csv_rows[i])
        /\ (\E i \in 1..Len(csv_rows) : Dist(i) = 0) =>
              \E i \in 1..Len(csv_rows) :
                  /\ csv_rows[i].timestamp = LatestTs - 7
                  /\ week_ago_institutional_btc = row_total(csv_rows[i])

\* two entries 14 days apart: both are 7 days from the target, and the newer
\* one (the latest entry itself) is taken
C6_Witness ==
    /\ HoldingsReturned
    /\ Len(csv_rows) = 2
    /\ csv_rows[1].timestamp = 0 /\ csv_rows[2].timestamp = 14
    /\ row_total(csv_rows[1]) # row_total(csv_rows[2])
    /\ week_ago_institutional_btc = row_total(csv_rows[2])

----------------------------------------------------------------------------
(* Properties of the render pass (SpecRender) *)

RenderEnded == pc \in {"done", "crashed", "error_shown"}

Sources == {"price_data", "block_height", "block_height_7d_ago", "avg_block_time",
            "difficulty_adjustment", "onchain_volume_series",
            "institutional_holdings_series"}
Unavailable(src) ==
    CASE src = "price_data"            -> btc_data.k = "None"
      [] src = "block_height"          -> block_height = NA
      [] src = "block_height_7d_ago"   -> block_height_7d_ago = NA
      [] src = "avg_block_time"        -> avg_block_time = NA
      [] src = "difficulty_adjustment" -> difficulty_data.k = "None"
      [] src = "onchain_volume_series" -> latest_ma = NA /\ prev_ma = NA
      [] src = "institutional_holdings_series" ->
             institutional_btc = NA /\ week_ago_institutional_btc = NA
WellFormedAdjustment ==
    /\ difficulty_data.k = "list"
    /\ Len(difficulty_data.recs) > 0
    /\ difficulty_data.recs[1].islist
    /\ Len(difficulty_data.recs[1].fields) >= 4
Present(src) ==
    CASE src = "price_data" ->
             /\ btc_data.k = "dict"
             /\ btc_data.current_price.k = "num"
             /\ btc_data.price_change_percentage_24h.k = "num"
             /\ btc_data.market_cap.k = "num"
             /\ btc_data.circulating_supply.k = "num"
      [] src = "block_height"          -> block_height.k = "text"
      [] src = "block_height_7d_ago"   -> block_height_7d_ago.k = "num"
      [] src = "avg_block_time"        -> avg_block_time.k = "num"
      [] src = "difficulty_adjustment" -> WellFormedAdjustment
      [] src = "onchain_volume_series" -> latest_ma.k = "num" /\ prev_ma.k = "num"
      [] src = "institutional_holdings_series" ->
             institutional_btc.k = "num" /\ week_ago_institutional_btc.k = "num"
OnlyUnavailable(src) ==
    Unavailable(src) /\ \A other \in Sources \ {src} : Present(other)

\* the tiles whose value comes from a source (the two heights also feed the
\* delta line of the supply tile)
TilesOf(src) ==
    CASE src = "price_data"            -> {"price", "market_cap", "supply"}
      [] src = "block_height"          -> {"block_height"}
      [] src = "block_height_7d_ago"   -> {}
      [] src = "avg_block_time"        -> {"avg_block_time"}
      [] src = "difficulty_adjustment" -> {"difficulty"}
      [] src = "onchain_volume_series" -> {"volume"}
      [] src = "institutional_holdings_series" -> {"holdings"}

DegradesOnly(src) ==
    /\ pc = "done"
    /\ \A t \in TilesOf(src) : tiles[t].shown = "N/A"
    /\ \A t \in TileNames \ TilesOf(src) : tiles[t].shown = "value"
    /\ src \in {"block_height", "block_height_7d_ago"}
          => tiles["supply"].delta = None

\* C1 as stated: with exactly one source Unavailable and all others present
\* the render pass completes, the tiles of that source show "N/A" (or lose
\* only their delta) and every other tile shows its value.
C1_DegradesTileByTile ==
    \A src \in Sources : (RenderEnded /\ OnlyUnavailable(src)) => DegradesOnly(src)

SupplyBlockRan == tiles["supply"].shown = "value"
GrowthReported == tiles["supply"].delta # None

\* C2 as stated: no growth is reported when a height is Unavailable or when
\* current_height - height_7_days_ago is negative.
C2_NoNegativeGrowth ==
    SupplyBlockRan =>
        /\ (block_height = NA \/ block_height_7d_ago = NA) => ~GrowthReported
        /\ (block_height.k = "text" /\ block_height_7d_ago.k = "num"
             /\ block_height.n < block_height_7d_ago.n) => ~GrowthReported

\* the issuance of the epoch of height h, from the 50 BTC of epoch 0
RewardAt(h) == Rat(50, 2 ^ (h \div 210000))

\* C8: when current_height >= height_7_days_ago the daily growth is
\* (current_height - height_7_days_ago) * IssuanceRate(current_height) / 7,
\* shown rounded to whole BTC/day, and zero blocks give a displayed 0.
C8_GrowthUsesCurrentRate ==
    (SupplyBlockRan /\ block_height.k = "text" /\ block_height_7d_ago.k = "num"
     /\ block_height.n >= block_height_7d_ago.n) =>
        LET expected == RDiv(RMul(Num(block_height.n - block_height_7d_ago.n),
                                  RewardAt(block_height.n)), Num(7))
        IN  /\ daily_avg_supply_increase.k = "num"
            /\ REq(daily_avg_supply_increase, expected)
            /\ GrowthReported
            /\ tiles["supply"].delta = Text(RoundHalfEven(expected.n, expected.d))
            /\ (block_height.n = block_height_7d_ago.n
                    => tiles["supply"].delta = Text(0))

\* the 7 days contain the halving at 1050000: 1009 blocks, all at 1.5625
C8_Witness ==
    /\ SupplyBlockRan
    /\ block_height = Text(1050000)
    /\ block_height_7d_ago = Num(1048991)
    /\ blocks_mined = Num(1009)
    /\ tiles["supply"].delta = Text(225)

DifficultyBlockRan == tiles["difficulty"].shown # "none"
NoAdjustmentRecord == difficulty_data.k # "list" \/ Len(difficulty_data.recs) = 0

\* C9: the difficulty tile shows "N/A" when there is no adjustment record or
\* the first record is malformed; otherwise it shows difficulty / 10^12 and
\* (change_factor - 1) * 100 of fields 2 and 3 of the first record, with the
\* arrow up exactly when the change is >= 0.
C9_DifficultyTile ==
    DifficultyBlockRan =>
        IF NoAdjustmentRecord \/ ~WellFormedAdjustment
        THEN tiles["difficulty"] = NATile
        ELSE LET first == difficulty_data.recs[1].fields
                 percent == RMul(RSub(first[4], Num(1)), Num(100))
             IN  /\ tiles["difficulty"].shown = "value"
                 /\ REq(tiles["difficulty"].value, Fmt(RDiv(first[3], Num(1000)), 2))
                 /\ REq(tiles["difficulty"].delta, Fmt(RAbs(percent), 2))
                 /\ (tiles["difficulty"].arrow = "up") <=> (percent.n >= 0)
                 /\ tiles["difficulty"].arrow \in {"up", "down"}

\* difficulty 1e14 with change factor 1.05 first in the list: 100.00 T, up 5.00%
C9_Witness ==
    /\ DifficultyBlockRan
    /\ difficulty_data.k = "list"
    /\ difficulty_data.recs = <<AdjustmentUp, AdjustmentDown>>
    /\ REq(tiles["difficulty"].value, Num(100))
    /\ REq(tiles["difficulty"].delta, Num(5))
    /\ tiles["difficulty"].arrow = "up"

\* C10 as stated: the "N/A" sentinel or None never reaches an arithmetic
\* operation, an ordering comparison, an int() conversion or a numeric format.
C10_SentinelNeverUsedAsNumber == leak = "none"

====
